---------------------------- MODULE Spec2Model ----------------------------
(***************************************************************************)
(* Model of resources/make_27_star_svg.py: the 2D affine transform algebra, *)
(* the transform-attribute parser, the element-tree helpers and the one-shot *)
(* pipeline main() (locate, centre, delete, stamp, write).                  *)
(*                                                                         *)
(* Numbers.  Python floats are modelled by exact integers and rationals:    *)
(* transform arguments are integers, rotation angles in transform           *)
(* attributes are multiples of 90 degrees (so cos and sin are 0, 1 or -1),  *)
(* and the result of mat_inv is kept as integer numerators over the         *)
(* determinant.  The "%.12g" conversion is modelled digit by digit.         *)
(*                                                                         *)
(* Text.  An attribute string is a sequence of tokens: a name is a maximal  *)
(* run of ASCII letters, a num is one numeric literal, and lp, rp, ws,      *)
(* comma are "(", ")", white space and ",".                                 *)
(***************************************************************************)
EXTENDS Integers, Sequences, FiniteSets, TLC

\* ------------------------------------------------------------------------
\* Program constants (make_27_star_svg.py lines 16-30)
\* ------------------------------------------------------------------------

TEMPLATE_ID == "g16532"

STAR_IDS_TO_DELETE ==
    << "g16722", "g16712", "g16702", "g16692", "g16682", "g16672", "g16662",
       "g16652", "g16642", "g16632", "g16622", "g16612", "g16602", "g16592",
       "g16582", "g16572", "g16562", "g16552", "g16542" >>

GLOBAL_CENTER_X == 750

GLOBAL_CENTER_Y == 515

TOTAL_STARS == 27

\* STEP_DEG = 360.0 / TOTAL_STARS, kept as the rational STEP_NUM / TOTAL_STARS
STEP_NUM == 360

DIRECTION == 1

\* the precision of every "{x:.12g}" conversion
SIG_DIGITS == 12

\* ------------------------------------------------------------------------
\* Bounds of the model
\* ------------------------------------------------------------------------

\* number of element nodes of an input document
MaxNodes == 3

\* number of segments an attribute string of the parser's inputs is made of
MaxSegs == 3

\* ------------------------------------------------------------------------
\* Transform math (2D affine), lines 55-100.  A matrix is
\* << <<a, c, e>>, <<b, d, f>>, <<0, 0, 1>> >>.
\* ------------------------------------------------------------------------

mat_identity == << <<1, 0, 0>>, <<0, 1, 0>>, <<0, 0, 1>> >>

mat_mul(a, b) ==
    << << a[1][1]*b[1][1] + a[1][2]*b[2][1] + a[1][3]*b[3][1],
          a[1][1]*b[1][2] + a[1][2]*b[2][2] + a[1][3]*b[3][2],
          a[1][1]*b[1][3] + a[1][2]*b[2][3] + a[1][3]*b[3][3] >>,
       << a[2][1]*b[1][1] + a[2][2]*b[2][1] + a[2][3]*b[3][1],
          a[2][1]*b[1][2] + a[2][2]*b[2][2] + a[2][3]*b[3][2],
          a[2][1]*b[1][3] + a[2][2]*b[2][3] + a[2][3]*b[3][3] >>,
       << 0, 0, 1 >> >>

mat_translate(tx, ty) == << <<1, 0, tx>>, <<0, 1, ty>>, <<0, 0, 1>> >>

\* math.cos / math.sin of math.radians(d), for d a multiple of 90
CosDeg(d) == CASE d % 360 = 0 -> 1 [] d % 360 = 90 -> 0
               [] d % 360 = 180 -> -1 [] d % 360 = 270 -> 0

SinDeg(d) == CASE d % 360 = 0 -> 0 [] d % 360 = 90 -> 1
               [] d % 360 = 180 -> 0 [] d % 360 = 270 -> -1

mat_rotate(angle_deg) ==
    << << CosDeg(angle_deg), -SinDeg(angle_deg), 0 >>,
       << SinDeg(angle_deg),  CosDeg(angle_deg), 0 >>,
       << 0, 0, 1 >> >>

mat_apply(m, x, y) ==
    << m[1][1]*x + m[1][2]*y + m[1][3],
       m[2][1]*x + m[2][2]*y + m[2][3] >>

\* mat_inv, lines 159-172.  The inverse is [ai ci ei; bi di fi] with every
\* entry divided by det: the record keeps the numerators and det.
\* abs(det) < 1e-12 is det = 0 on integers.
mat_inv(m) ==
    LET a == m[1][1]
        c == m[1][2]
        e == m[1][3]
        b == m[2][1]
        d == m[2][2]
        f == m[2][3]
        det == a*d - b*c
    IN  IF det = 0
        THEN [ok |-> FALSE, num |-> mat_identity, den |-> 1]
        ELSE [ok |-> TRUE,
              num |-> << << d, -c, -(d*e - c*f) >>,
                         << -b, a, -(a*f - b*e) >>,
                         << 0, 0, det >> >>,
              den |-> det]

\* ------------------------------------------------------------------------
\* Attribute text
\* ------------------------------------------------------------------------

\* the decimal numeral of the integer n
Dec(n) == [neg |-> n < 0, int |-> IF n < 0 THEN -n ELSE n, frac |-> << >>]

Name(s) == [k |-> "name", name |-> s, num |-> Dec(0)]

\* a numeric literal with the numeral d
NumTok(d) == [k |-> "num", name |-> "", num |-> d]

Num(n) == NumTok(Dec(n))

LP == [k |-> "lp", name |-> "", num |-> Dec(0)]

RP == [k |-> "rp", name |-> "", num |-> Dec(0)]

WS == [k |-> "ws", name |-> "", num |-> Dec(0)]

COMMA == [k |-> "comma", name |-> "", num |-> Dec(0)]

\* element.get("transform"): None when the attribute is absent
NoAttr == [has |-> FALSE, toks |-> << >>]

Attr(toks) == [has |-> TRUE, toks |-> toks]

\* str.lower() on the command names the model uses
Lower(s) ==
    CASE s = "Translate" -> "translate"
      [] s = "ROTATE" -> "rotate"
      [] s = "Scale" -> "scale"
      [] s = "MATRIX" -> "matrix"
      [] s = "skewX" -> "skewx"
      [] s = "skewY" -> "skewy"
      [] s = "SkewY" -> "skewy"
      [] OTHER -> s

\* str.strip() leaves nothing: the string is empty or white space only
IsBlank(toks) == \A i \in 1..Len(toks) : toks[i].k = "ws"

\* first index >= p of toks that is not white space (Len(toks)+1 if none)
RECURSIVE SkipWs(_, _)
SkipWs(toks, p) ==
    IF p > Len(toks) \/ toks[p].k # "ws" THEN p ELSE SkipWs(toks, p + 1)

\* first index >= p of toks that is ")" (0 if none)
RECURSIVE FindRp(_, _)
FindRp(toks, p) ==
    IF p > Len(toks) THEN 0
    ELSE IF toks[p].k = "rp" THEN p ELSE FindRp(toks, p + 1)

\* _transform_cmd_re.findall(transform), line 63 and line 107: the
\* non-overlapping matches of  ([a-zA-Z]+)\s*\(([^)]*)\)  from position p on,
\* scanning left to right
RECURSIVE FindAllFrom(_, _)
FindAllFrom(toks, p) ==
    IF p > Len(toks) THEN << >>
    ELSE IF toks[p].k # "name" THEN FindAllFrom(toks, p + 1)
    ELSE LET q == SkipWs(toks, p + 1)
         IN  IF q > Len(toks) \/ toks[q].k # "lp"
             THEN FindAllFrom(toks, p + 1)
             ELSE LET r == FindRp(toks, q + 1)
                  IN  IF r = 0
                      THEN FindAllFrom(toks, p + 1)
                      ELSE << [cmd |-> toks[p].name,
                               args |-> SubSeq(toks, q + 1, r - 1)] >>
                           \o FindAllFrom(toks, r + 1)

findall(toks) == FindAllFrom(toks, 1)

IsSep(t) == t.k = "ws" \/ t.k = "comma"

\* re.split(r"[,\s]+", s.strip()) without the empty parts: the maximal runs
\* of tokens that are neither white space nor a comma
RECURSIVE SplitParts(_, _, _)
SplitParts(toks, p, cur) ==
    IF p > Len(toks) THEN (IF cur = << >> THEN << >> ELSE << cur >>)
    ELSE IF IsSep(toks[p])
         THEN (IF cur = << >> THEN << >> ELSE << cur >>)
              \o SplitParts(toks, p + 1, << >>)
         ELSE SplitParts(toks, p + 1, Append(cur, toks[p]))

\* float(p) succeeds on one numeric literal and raises ValueError otherwise
FloatOk(part) == Len(part) = 1 /\ part[1].k = "num"

\* float(p) of an integer literal (the literals of the model's inputs)
FloatVal(d) == IF d.neg THEN -d.int ELSE d.int

\* parse_number_list, lines 65-67
parse_number_list(toks) ==
    LET parts == SplitParts(toks, 1, << >>)
    IN  IF \A i \in 1..Len(parts) : FloatOk(parts[i])
        THEN [ok |-> TRUE, vals |-> [i \in 1..Len(parts) |-> FloatVal(parts[i][1].num)]]
        ELSE [ok |-> FALSE, vals |-> << >>]

Raise(e) == [err |-> e, m |-> mat_identity]

Value(m) == [err |-> "", m |-> m]

\* the else branch of lines 144-146 turned into a silent no-op
UnsupportedIgnored(cmd) == Value(mat_identity)

\* the else branch of parse_transform, lines 144-146
Unsupported(cmd) == Raise("unsupported")

\* the matrix m of one command, lines 108-146
CommandMatrix(cmd, argtoks) ==
    LET pn == parse_number_list(argtoks)
        vals == pn.vals
        n == Len(vals)
        c == Lower(cmd)
    IN  IF ~pn.ok THEN Raise("float")
        ELSE IF c = "matrix"
        THEN IF n # 6 THEN Raise("count")
             ELSE Value(<< << vals[1], vals[3], vals[5] >>,
                           << vals[2], vals[4], vals[6] >>,
                           << 0, 0, 1 >> >>)
        ELSE IF c = "translate"
        THEN IF n = 1 THEN Value(mat_translate(vals[1], 0))
             ELSE IF n = 2 THEN Value(mat_translate(vals[1], vals[2]))
             ELSE Raise("count")
        ELSE IF c = "rotate"
        THEN IF n = 1 THEN Value(mat_rotate(vals[1]))
             ELSE IF n = 3
             THEN Value(mat_mul(mat_translate(vals[2], vals[3]),
                                mat_mul(mat_rotate(vals[1]),
                                        mat_translate(-vals[2], -vals[3]))))
             ELSE Raise("count")
        ELSE IF c = "scale"
        THEN IF n = 1
             THEN Value(<< << vals[1], 0, 0 >>, << 0, vals[1], 0 >>, << 0, 0, 1 >> >>)
             ELSE IF n = 2
             THEN Value(<< << vals[1], 0, 0 >>, << 0, vals[2], 0 >>, << 0, 0, 1 >> >>)
             ELSE Raise("count")
        ELSE Unsupported(cmd)

\* line 149 with the operands exchanged
AccumulateLeft(result, m) == mat_mul(m, result)

\* line 149: result = mat_mul(result, m)
Accumulate(result, m) == mat_mul(result, m)

\* one pass of the loop body of parse_transform (lines 107-149) over the
\* matches from index i on, with accumulator result
RECURSIVE ParseLoop(_, _, _)
ParseLoop(matches, i, result) ==
    IF i > Len(matches) THEN Value(result)
    ELSE LET cm == CommandMatrix(matches[i].cmd, matches[i].args)
         IN  IF cm.err # "" THEN cm
             ELSE ParseLoop(matches, i + 1, Accumulate(result, cm.m))

\* parse_transform, lines 102-151
parse_transform(transform) ==
    IF ~transform.has \/ transform.toks = << >> \/ IsBlank(transform.toks)
    THEN Value(mat_identity)
    ELSE ParseLoop(findall(transform.toks), 1, mat_identity)

\* ------------------------------------------------------------------------
\* "{x:.12g}" (lines 177 and 286).  A float is the rational num/den; the
\* text written is the decimal numeral [neg, int, frac]: a sign, the integer
\* part and the digits after the point.  The model's values stay within
\* 1e-4 <= |x| < 1e12 (or are 0), where %g uses no exponent.
\* ------------------------------------------------------------------------

Abs(x) == IF x < 0 THEN -x ELSE x

RECURSIVE NumDigits(_)
NumDigits(n) == IF n < 10 THEN 1 ELSE 1 + NumDigits(n \div 10)

\* the first k digits of r/d after the point (0 <= r < d), by long division
RECURSIVE FracDigits(_, _, _)
FracDigits(r, d, k) ==
    IF k = 0 THEN << >>
    ELSE << (10 * r) \div d >> \o FracDigits((10 * r) % d, d, k - 1)

\* the remainder left after those k digits
RECURSIVE FracRem(_, _, _)
FracRem(r, d, k) == IF k = 0 THEN r ELSE FracRem((10 * r) % d, d, k - 1)

\* number of zeros right after the point of r/d (0 < r < d)
RECURSIVE LeadingZeros(_, _)
LeadingZeros(r, d) ==
    IF 10 * r >= d THEN 0 ELSE 1 + LeadingZeros(10 * r, d)

\* digits ds plus one unit in the last place: [carry, ds]
RECURSIVE IncDigits(_)
IncDigits(ds) ==
    IF ds = << >> THEN [carry |-> TRUE, ds |-> << >>]
    ELSE LET n == Len(ds)
         IN  IF ds[n] < 9
             THEN [carry |-> FALSE, ds |-> [ds EXCEPT ![n] = ds[n] + 1]]
             ELSE LET up == IncDigits(SubSeq(ds, 1, n - 1))
                  IN  [carry |-> up.carry, ds |-> Append(up.ds, 0)]

RECURSIVE StripZeros(_)
StripZeros(ds) ==
    IF ds # << >> /\ ds[Len(ds)] = 0
    THEN StripZeros(SubSeq(ds, 1, Len(ds) - 1))
    ELSE ds

\* the conversion with sig significant digits
FormatSig(num, den, sig) ==
    LET n == Abs(num)
        d == Abs(den)
        ip == n \div d
        r == n % d
        k == IF ip >= 1 THEN sig - NumDigits(ip)
             ELSE IF r = 0 THEN 0 ELSE sig + LeadingZeros(r, d)
        ds == FracDigits(r, d, k)
        rem == FracRem(r, d, k)
        last == IF k = 0 THEN ip % 10 ELSE ds[k]
        roundUp == 2 * rem > d \/ (2 * rem = d /\ last % 2 = 1)
        up == IncDigits(ds)
        ip2 == IF roundUp /\ up.carry THEN ip + 1 ELSE ip
        ds2 == IF roundUp THEN up.ds ELSE ds
    IN  [neg |-> n # 0 /\ ((num < 0) # (den < 0)),
         int |-> ip2,
         frac |-> StripZeros(ds2)]

\* the precision with one digit fewer
FormatG12Short(num, den) == FormatSig(num, den, SIG_DIGITS - 1)

\* f"{x:.12g}"
FormatG12(num, den) == FormatSig(num, den, SIG_DIGITS)

\* the numeral dec denotes exactly the rational num/den
DecEquals(dec, num, den) ==
    LET n == Abs(num)
        d == Abs(den)
        k == Len(dec.frac)
    IN  /\ dec.neg = (n # 0 /\ ((num < 0) # (den < 0)))
        /\ dec.int = n \div d
        /\ dec.frac = FracDigits(n % d, d, k)
        /\ FracRem(n % d, d, k) = 0

\* ------------------------------------------------------------------------
\* The element heap.  An element is a record [tag, id, transform, kids]; the
\* heap is the sequence of all elements ever created, an element is named
\* by its index, kids are indexes, and element 1 is the document root.  An
\* id of "" stands for no id attribute (e.get("id") is falsy either way).
\* ------------------------------------------------------------------------

ROOT == 1

\* root.iter(): the elements of the subtree of n in document order
RECURSIVE Preorder(_, _)
RECURSIVE PreorderKids(_, _, _)
Preorder(heap, n) == << n >> \o PreorderKids(heap, heap[n].kids, 1)

PreorderKids(heap, kids, j) ==
    IF j > Len(kids) THEN << >>
    ELSE Preorder(heap, kids[j]) \o PreorderKids(heap, kids, j + 1)

Range(seq) == { seq[j] : j \in 1..Len(seq) }

\* the subtree of n as a value: what a serialisation of it shows
RECURSIVE Tree(_, _)
Tree(heap, n) ==
    [tag |-> heap[n].tag, id |-> heap[n].id, transform |-> heap[n].transform,
     kids |-> [j \in 1..Len(heap[n].kids) |-> Tree(heap, heap[n].kids[j])]]

\* the subtree of n without its identifiers
RECURSIVE Shape(_, _)
Shape(heap, n) ==
    [tag |-> heap[n].tag, transform |-> heap[n].transform,
     kids |-> [j \in 1..Len(heap[n].kids) |-> Shape(heap, heap[n].kids[j])]]

\* find_element_by_id, lines 40-44 (0 is None)
find_element_by_id(heap, root, elem_id) ==
    LET it == Preorder(heap, root)
        hits == { j \in 1..Len(it) : heap[it[j]].id = elem_id }
    IN  IF hits = {} THEN 0
        ELSE it[CHOOSE j \in hits : \A h \in hits : j <= h]

\* find_all_ids, lines 46-52
find_all_ids(heap, root) ==
    { heap[n].id : n \in { m \in Range(Preorder(heap, root)) : heap[m].id # "" } }

\* build_parent_map, lines 37-38: child -> parent over the tree of root
\* (0 where the dict has no key)
build_parent_map(heap, root) ==
    LET it == Range(Preorder(heap, root))
    IN  [c \in 1..Len(heap) |->
            IF \E q \in it : c \in Range(heap[q].kids)
            THEN CHOOSE q \in it : c \in Range(heap[q].kids)
            ELSE 0]

\* pmap.get(e) on a map built before e was created
PmapGet(pm, e) == IF e \in DOMAIN pm THEN pm[e] ELSE 0

\* list.remove: kids without the first occurrence of e
RemoveFirst(kids, e) ==
    LET j == CHOOSE x \in 1..Len(kids) :
                 kids[x] = e /\ \A y \in 1..(x - 1) : kids[y] # e
    IN  SubSeq(kids, 1, j - 1) \o SubSeq(kids, j + 1, Len(kids))

\* line 260 removing from a copy of the child list
RemoveFromCopy(heap, par, elem) == heap

\* par.remove(elem), line 260
RemoveChild(heap, par, elem) ==
    [heap EXCEPT ![par].kids = RemoveFirst(@, elem)]

\* parent.append(child), lines 287 and 289
AppendChild(heap, par, child) ==
    [heap EXCEPT ![par].kids = Append(@, child)]

\* copy.deepcopy(n), lines 232 and 269: the copy's elements are appended to
\* the heap, the copy of n first
DeepCopy(heap, n) ==
    LET pre == Preorder(heap, n)
        base == Len(heap)
        pos(x) == CHOOSE j \in 1..Len(pre) : pre[j] = x
    IN  heap \o [j \in 1..Len(pre) |->
                   [heap[pre[j]] EXCEPT
                       !.kids = [t \in 1..Len(@) |-> base + pos(@[t])]]]

\* the chain of lines 202-207: root, ..., parent
RECURSIVE Chain(_, _)
Chain(pm, n) ==
    IF n = 0 THEN << >> ELSE Append(Chain(pm, PmapGet(pm, n)), n)

\* the loop of lines 209-211 over the chain from index j on
RECURSIVE ComposeChain(_, _, _, _)
ComposeChain(heap, chain, j, m) ==
    IF j > Len(chain) THEN Value(m)
    ELSE LET t == parse_transform(heap[chain[j]].transform)
         IN  IF t.err # "" THEN t
             ELSE ComposeChain(heap, chain, j + 1, mat_mul(m, t.m))

\* the cumulative transform down to the template itself (lines 180-195)
cumulative_transform_to_element(heap, elem, pm) ==
    ComposeChain(heap, Chain(pm, elem), 1, mat_identity)

\* cumulative_transform_to_parent, lines 198-212
cumulative_transform_to_parent(heap, parent, pm) ==
    ComposeChain(heap, Chain(pm, parent), 1, mat_identity)

\* ------------------------------------------------------------------------
\* Identifier minting, lines 270-284
\* ------------------------------------------------------------------------

\* f"{i:02d}"
Pad2(i) == IF i < 10 THEN "0" \o ToString(i) ELSE ToString(i)

\* the loop of lines 272-274 from the given suffix on
RECURSIVE StarIdFrom(_, _, _)
StarIdFrom(existing, i, suffix) ==
    LET cand == TEMPLATE_ID \o "_new" \o Pad2(i) \o "_" \o ToString(suffix)
    IN  IF cand \in existing THEN StarIdFrom(existing, i, suffix + 1) ELSE cand

\* lines 270-274 without the membership test
MintStarIdUnchecked(existing, i) == TEMPLATE_ID \o "_new" \o Pad2(i)

\* lines 270-274
MintStarId(existing, i) ==
    LET cand == TEMPLATE_ID \o "_new" \o Pad2(i)
    IN  IF cand \in existing THEN StarIdFrom(existing, i, 2) ELSE cand

\* the loop of lines 281-282
RECURSIVE WrapIdFrom(_, _)
WrapIdFrom(existing, cand) ==
    IF cand \in existing THEN WrapIdFrom(existing, cand \o "_x") ELSE cand

\* lines 280-282
MintWrapperId(existing, star_id) == WrapIdFrom(existing, star_id \o "_wrap")

\* ------------------------------------------------------------------------
\* State
\* ------------------------------------------------------------------------

VARIABLES
    input,              \* the heap as parsed from the input file (line 222)
    elems,              \* the heap now
    pc,                 \* position in main()
    status,             \* "running", "ok" (0), "exit1" (1), "raised" (ValueError)
    template_live,      \* line 226
    template_snapshot,  \* line 232
    pmap,               \* lines 235 and 256
    star_parent,        \* line 236
    local_c,            \* lines 243-245: (local_cx, local_cy) = (x/den, y/den)
    del_i,              \* index of sid in all_to_delete (line 252)
    deleted,            \* line 251
    existing_ids,       \* line 263
    i,                  \* line 266
    wrappers,           \* the wrapper elements created so far, in order
    written,            \* the document tree.write wrote (line 291), or << >>
    p_in,               \* parser runs: the transform attribute
    p_pc,               \* parser runs: "idle", "loop", "returned", "raised"
    p_k,                \* parser runs: index of the next match
    p_result            \* parser runs: the accumulator result

vars == << input, elems, pc, status, template_live, template_snapshot, pmap,
           star_parent, local_c, del_i, deleted, existing_ids, i, wrappers,
           written, p_in, p_pc, p_k, p_result >>

mainVars == << input, elems, pc, status, template_live, template_snapshot, pmap,
               star_parent, local_c, del_i, deleted, existing_ids, i, wrappers,
               written >>

parseVars == << p_in, p_pc, p_k, p_result >>

\* ------------------------------------------------------------------------
\* Input documents
\* ------------------------------------------------------------------------

\* ids an input element may bear: none, the template's, a listed star's, and
\* two ids the stamping loop would mint
IdPool ==
    { "", TEMPLATE_ID, STAR_IDS_TO_DELETE[1], "g16532_new00", "g16532_new00_wrap" }

\* transform attributes an input element may bear
XformPool ==
    { NoAttr,
      Attr(<< Name("translate"), LP, Num(100), COMMA, Num(100), RP >>),
      Attr(<< Name("scale"), LP, Num(3), RP >>),
      Attr(<< Name("rotate"), LP, Num(90), RP >>),
      Attr(<< Name("scale"), LP, Num(0), RP >>),
      Attr(<< Name("skewX"), LP, Num(10), RP >>),
      Attr(<< Name("translate"), LP, Num(1), WS, Num(2), WS, Num(3), RP >>) }

\* the ancestors of element c, c included, under the parent vector par
RECURSIVE Ancestors(_, _)
Ancestors(par, c) == IF c = ROOT THEN { c } ELSE { c } \cup Ancestors(par, par[c])

\* parent of each element 2..n, the elements numbered in document order:
\* the parent of c is c - 1 or an ancestor of c - 1
ParentVectors(n) ==
    { f \in [2..n -> 1..n] :
        \A c \in 2..n : f[c] < c /\ f[c] \in Ancestors(f, c - 1) }

\* the parent vector of a single path from the root
PathVector(n) == [c \in 2..n |-> c - 1]

KidsOf(par, n, e) ==
    LET IsKid(c) == par[c] = e
    IN  SelectSeq([j \in 1..(n - 1) |-> j + 1], IsKid)

MakeDoc(n, par, ids, xf) ==
    [e \in 1..n |->
        [tag |-> IF e = ROOT THEN "svg"
                 ELSE IF KidsOf(par, n, e) = << >> THEN "path" ELSE "g",
         id |-> ids[e],
         transform |-> xf[e],
         kids |-> KidsOf(par, n, e)]]

\* documents of any shape with any ids and no transforms
IdDocs(n) ==
    UNION { { MakeDoc(n, par, ids, [e \in 1..n |-> NoAttr]) :
                ids \in [1..n -> IdPool] } :
            par \in ParentVectors(n) }

\* documents that are one path from the root, with any transforms, the
\* template being the last element or its parent
XformDocs(n) ==
    UNION { { MakeDoc(n, PathVector(n),
                      [e \in 1..n |-> IF e = t THEN TEMPLATE_ID ELSE ""], xf) :
                xf \in [1..n -> XformPool] } :
            t \in { n - 1, n } \ { 0 } }

\* the input documents: at most MaxNodes elements
InputDocs == UNION { IdDocs(n) \cup XformDocs(n) : n \in 1..MaxNodes }

NoCenter == [x |-> 0, y |-> 0, den |-> 0]

ParseIdle ==
    /\ p_in = NoAttr
    /\ p_pc = "idle"
    /\ p_k = 0
    /\ p_result = mat_identity

Init ==
    /\ input \in InputDocs
    /\ elems = input
    /\ pc = "locate"
    /\ status = "running"
    /\ template_live = 0
    /\ template_snapshot = 0
    /\ pmap = << >>
    /\ star_parent = 0
    /\ local_c = NoCenter
    /\ del_i = 1
    /\ deleted = 0
    /\ existing_ids = {}
    /\ i = 0
    /\ wrappers = << >>
    /\ written = << >>
    /\ ParseIdle

\* ------------------------------------------------------------------------
\* main(), lines 215-294
\* ------------------------------------------------------------------------

\* the phases with the centre computed after the deletions
PhaseOrderCenterLate == << "locate", "delete", "center", "stamp", "write", "done" >>

\* the order of the phases of main()
PhaseOrder == << "locate", "center", "delete", "stamp", "write", "done" >>

NextPhase(p) ==
    PhaseOrder[(CHOOSE j \in 1..Len(PhaseOrder) : PhaseOrder[j] = p) + 1]

\* line 250 without the template
all_to_delete_stars_only == STAR_IDS_TO_DELETE

\* line 250
all_to_delete == STAR_IDS_TO_DELETE \o << TEMPLATE_ID >>

Exit(s) ==
    /\ status' = s
    /\ pc' = "done"

\* lines 226-239: find the template, snapshot it, find its parent
Locate ==
    /\ pc = "locate"
    /\ LET t == find_element_by_id(elems, ROOT, TEMPLATE_ID)
       IN  IF t = 0
           THEN /\ Exit("exit1")
                /\ UNCHANGED << elems, template_live, template_snapshot, pmap,
                                star_parent >>
           ELSE LET pm == build_parent_map(elems, ROOT)
                IN  /\ template_live' = t
                    /\ elems' = DeepCopy(elems, t)
                    /\ template_snapshot' = Len(elems) + 1
                    /\ pmap' = pm
                    /\ star_parent' = PmapGet(pm, t)
                    /\ IF PmapGet(pm, t) = 0
                       THEN Exit("exit1")
                       ELSE /\ pc' = NextPhase("locate")
                            /\ UNCHANGED status
    /\ UNCHANGED << input, local_c, del_i, deleted, existing_ids, i, wrappers,
                    written >>
    /\ UNCHANGED parseVars

\* the centre computed in the template's own coordinates
CenterChainThroughTemplate == cumulative_transform_to_element(elems, template_live, pmap)

\* line 243
CenterChain == cumulative_transform_to_parent(elems, star_parent, pmap)

\* lines 243-245: the centre in star_parent's coordinates
Center ==
    /\ pc = "center"
    /\ LET p2g == CenterChain
           g2p == mat_inv(p2g.m)
           c == mat_apply(g2p.num, GLOBAL_CENTER_X, GLOBAL_CENTER_Y)
       IN  IF p2g.err # "" \/ ~g2p.ok
           THEN /\ Exit("raised")
                /\ UNCHANGED local_c
           ELSE /\ local_c' = [x |-> c[1], y |-> c[2], den |-> g2p.den]
                /\ pc' = NextPhase("center")
                /\ UNCHANGED status
    /\ UNCHANGED << input, elems, template_live, template_snapshot, pmap,
                    star_parent, del_i, deleted, existing_ids, i, wrappers,
                    written >>
    /\ UNCHANGED parseVars

\* one iteration of lines 252-261 on a heap: [heap, pmap, removed]
DeleteOne(heap, pm, sid) ==
    LET elem == find_element_by_id(heap, ROOT, sid)
    IN  IF elem = 0 THEN [heap |-> heap, pmap |-> pm, removed |-> 0]
        ELSE LET pm2 == build_parent_map(heap, ROOT)
                 par == PmapGet(pm2, elem)
             IN  IF par = 0 THEN [heap |-> heap, pmap |-> pm2, removed |-> 0]
                 ELSE [heap |-> RemoveChild(heap, par, elem), pmap |-> pm2,
                       removed |-> 1]

\* the whole loop of lines 251-261 from index k on: [heap, deleted]
RECURSIVE DeleteLoop(_, _, _)
DeleteLoop(heap, k, count) ==
    IF k > Len(all_to_delete) THEN [heap |-> heap, deleted |-> count]
    ELSE LET d == DeleteOne(heap, << >>, all_to_delete[k])
         IN  IF d.removed = 0
             THEN DeleteLoop(heap, k + 1, count)
             ELSE DeleteLoop(d.heap, k + 1, count + 1)

\* lines 252-263: one sid; after the last one, existing_ids
Delete ==
    /\ pc = "delete"
    /\ del_i <= Len(all_to_delete)
    /\ LET d == DeleteOne(elems, pmap, all_to_delete[del_i])
       IN  /\ elems' = d.heap
           /\ pmap' = d.pmap
           /\ deleted' = deleted + d.removed
           /\ del_i' = del_i + 1
           /\ IF del_i = Len(all_to_delete)
              THEN /\ existing_ids' = find_all_ids(d.heap, ROOT)
                   /\ pc' = NextPhase("delete")
              ELSE UNCHANGED << existing_ids, pc >>
    /\ UNCHANGED << input, status, template_live, template_snapshot, star_parent,
                    local_c, i, wrappers, written >>
    /\ UNCHANGED parseVars

\* line 267 counting from 1
StarAngleOffByOne(k) == [num |-> DIRECTION * STEP_NUM * (k + 1), den |-> TOTAL_STARS]

\* line 267: angle = DIRECTION * STEP_DEG * i, as a rational
StarAngle(k) == [num |-> DIRECTION * STEP_NUM * k, den |-> TOTAL_STARS]

\* line 286: f"rotate({angle:.12g} {local_cx:.12g} {local_cy:.12g})"
WrapperTransform(angle, c) ==
    Attr(<< Name("rotate"), LP,
            NumTok(FormatG12(angle.num, angle.den)), WS,
            NumTok(FormatG12(c.x, c.den)), WS,
            NumTok(FormatG12(c.y, c.den)), RP >>)

\* lines 267-289: one star
Stamp ==
    /\ pc = "stamp"
    /\ i < TOTAL_STARS
    /\ LET angle == StarAngle(i)
           h1 == DeepCopy(elems, template_snapshot)
           star == Len(elems) + 1
           star_id == MintStarId(existing_ids, i)
           ids1 == existing_ids \cup { star_id }
           h2 == [h1 EXCEPT ![star].id = star_id]
           wrapper == Len(h2) + 1
           wrapper_id == MintWrapperId(ids1, star_id)
           h3 == Append(h2, [tag |-> "g", id |-> wrapper_id,
                             transform |-> WrapperTransform(angle, local_c),
                             kids |-> << star >>])
       IN  /\ elems' = AppendChild(h3, star_parent, wrapper)
           /\ existing_ids' = ids1 \cup { wrapper_id }
           /\ wrappers' = Append(wrappers, wrapper)
    /\ i' = i + 1
    /\ pc' = IF i + 1 = TOTAL_STARS THEN NextPhase("stamp") ELSE pc
    /\ UNCHANGED << input, status, template_live, template_snapshot, pmap,
                    star_parent, local_c, del_i, deleted, written >>
    /\ UNCHANGED parseVars

\* lines 291-294
Write ==
    /\ pc = "write"
    /\ written' = << Tree(elems, ROOT) >>
    /\ Exit("ok")
    /\ UNCHANGED << input, elems, template_live, template_snapshot, pmap,
                    star_parent, local_c, del_i, deleted, existing_ids, i,
                    wrappers >>
    /\ UNCHANGED parseVars

Next == Locate \/ Center \/ Delete \/ Stamp \/ Write

Spec == Init /\ [][Next]_vars

\* ------------------------------------------------------------------------
\* Runs of parse_transform alone, one loop iteration per step
\* ------------------------------------------------------------------------

\* pieces of attribute text
SegPool ==
    { << Name("translate"), LP, Num(100), COMMA, Num(100), RP >>,
      << Name("translate"), LP, Num(5), RP >>,
      << Name("rotate"), LP, Num(90), RP >>,
      << Name("rotate"), LP, Num(90), WS, Num(10), WS, Num(20), RP >>,
      << Name("scale"), LP, Num(2), RP >>,
      << Name("scale"), LP, COMMA, Num(2), COMMA, WS, Num(3), RP >>,
      << Name("matrix"), LP, Num(1), WS, Num(2), WS, Num(3), WS, Num(4), WS,
         Num(5), WS, Num(6), RP >>,
      << Name("ROTATE"), WS, LP, Num(180), RP >>,
      << Name("skewX"), LP, Num(10), RP >>,
      << Name("SkewY"), WS, LP, Num(3), RP >>,
      << Name("rotate"), Num(3), Name("d"), LP, Num(1), RP >>,
      << Name("translate"), LP, Num(1), WS, Num(2), WS, Num(3), RP >>,
      << Name("scale"), LP, Name("x"), RP >>,
      << Name("skewX"), LP, Num(10) >>,
      << Name("skewY") >>,
      << WS >> }

\* the texts made of at most k pieces, white space between two pieces
RECURSIVE SegStrings(_)
SegStrings(k) ==
    IF k = 0 THEN { << >> }
    ELSE SegStrings(k - 1)
         \cup SegPool
         \cup { s \o << WS >> \o t : s \in SegStrings(k - 1) \ { << >> }, t \in SegPool }

ParseInputs == { NoAttr } \cup { Attr(s) : s \in SegStrings(MaxSegs) }

MainIdle ==
    /\ input = << >>
    /\ elems = << >>
    /\ pc = "done"
    /\ status = "running"
    /\ template_live = 0
    /\ template_snapshot = 0
    /\ pmap = << >>
    /\ star_parent = 0
    /\ local_c = NoCenter
    /\ del_i = 1
    /\ deleted = 0
    /\ existing_ids = {}
    /\ i = 0
    /\ wrappers = << >>
    /\ written = << >>

InitParse ==
    /\ MainIdle
    /\ p_in \in ParseInputs
    /\ p_pc = "idle"
    /\ p_k = 0
    /\ p_result = mat_identity

\* lines 103-106
ParseStart ==
    /\ p_pc = "idle"
    /\ IF ~p_in.has \/ p_in.toks = << >> \/ IsBlank(p_in.toks)
       THEN /\ p_pc' = "returned"
            /\ p_k' = 0
       ELSE /\ p_pc' = "loop"
            /\ p_k' = 1
    /\ p_result' = mat_identity
    /\ UNCHANGED << p_in, mainVars >>

\* lines 107-149: one command
ParseStep ==
    /\ p_pc = "loop"
    /\ p_k <= Len(findall(p_in.toks))
    /\ LET mt == findall(p_in.toks)[p_k]
           cm == CommandMatrix(mt.cmd, mt.args)
       IN  IF cm.err # ""
           THEN /\ p_pc' = "raised"
                /\ UNCHANGED << p_k, p_result >>
           ELSE /\ p_result' = Accumulate(p_result, cm.m)
                /\ p_k' = p_k + 1
                /\ UNCHANGED p_pc
    /\ UNCHANGED << p_in, mainVars >>

\* line 151
ParseReturn ==
    /\ p_pc = "loop"
    /\ p_k > Len(findall(p_in.toks))
    /\ p_pc' = "returned"
    /\ UNCHANGED << p_in, p_k, p_result, mainVars >>

NextParse == ParseStart \/ ParseStep \/ ParseReturn

SpecParse == InitParse /\ [][NextParse]_vars

\* ------------------------------------------------------------------------
\* What the properties speak about
\* ------------------------------------------------------------------------

\* the ids of a document value in document order, elements without id left out
RECURSIVE IdsOfTree(_)
RECURSIVE IdsOfKids(_, _)
IdsOfTree(t) ==
    (IF t.id = "" THEN << >> ELSE << t.id >>) \o IdsOfKids(t.kids, 1)

IdsOfKids(kids, j) ==
    IF j > Len(kids) THEN << >>
    ELSE IdsOfTree(kids[j]) \o IdsOfKids(kids, j + 1)

NoDup(seq) == \A a, b \in 1..Len(seq) : a < b => seq[a] # seq[b]

\* the element ids of the input document are pairwise distinct
DistinctInputIds == NoDup(IdsOfTree(Tree(input, ROOT)))

\* the template of the input document: its first element bearing TEMPLATE_ID
InputTemplate ==
    LET ns == { e \in 1..Len(input) : input[e].id = TEMPLATE_ID }
    IN  IF ns = {} THEN 0 ELSE CHOOSE e \in ns : \A f \in ns : e <= f

\* the parent of element e in the input document (0 for the root)
InputParent(e) ==
    IF \E q \in 1..Len(input) : e \in Range(input[q].kids)
    THEN CHOOSE q \in 1..Len(input) : e \in Range(input[q].kids)
    ELSE 0

\* the elements of the input document from the root down to e
RECURSIVE InputPath(_)
InputPath(e) == IF e = 0 THEN << >> ELSE InputPath(InputParent(e)) \o << e >>

\* some transform attribute on the path is refused by parse_transform
PathRefused(path) ==
    \E j \in 1..Len(path) : parse_transform(input[path[j]].transform).err # ""

\* T(path[j]) . T(path[j+1]) . ... . T(path[n]), T the element's own transform
RECURSIVE PathMatrix(_, _)
PathMatrix(path, j) ==
    IF j > Len(path) THEN mat_identity
    ELSE mat_mul(parse_transform(input[path[j]].transform).m,
                 PathMatrix(path, j + 1))

Det(m) == m[1][1] * m[2][2] - m[2][1] * m[1][2]

\* the numerals a wrapper's transform carries
AngleOf(w) == elems[w].transform.toks[3].num

CenterXOf(w) == elems[w].transform.toks[5].num

CenterYOf(w) == elems[w].transform.toks[7].num

\* the stamped copy a wrapper holds
StarOf(w) == elems[w].kids[1]

\* the elements of the live document
Live == Range(Preorder(elems, ROOT))

\* the elements strictly inside the stamped copies
InsideCopies ==
    UNION { Range(Preorder(elems, StarOf(wrappers[k]))) \ { StarOf(wrappers[k]) } :
            k \in 1..Len(wrappers) }

MintedIds ==
    { elems[wrappers[k]].id : k \in 1..Len(wrappers) }
    \cup { elems[StarOf(wrappers[k])].id : k \in 1..Len(wrappers) }

DeletionDone == del_i > Len(all_to_delete)

\* ------------------------------------------------------------------------
\* C1.  After a successful run on an input whose element ids are pairwise
\* distinct, no two elements of the written document share an id.
\* ------------------------------------------------------------------------
C1_OutputIdsDistinct ==
    (status = "ok" /\ DistinctInputIds) => NoDup(IdsOfTree(written[1]))

\* ------------------------------------------------------------------------
\* C2.  A successful run writes a document that holds exactly TOTAL_STARS
\* new wrapper g elements; they are the last children, in index order, of
\* the element that was the template's parent; each has exactly one child,
\* whose subtree is the input template's subtree up to identifiers.
\* ------------------------------------------------------------------------
C2_WrappersInOutput ==
    status = "ok" =>
        LET p == InputParent(InputTemplate)
            kids == elems[p].kids
            n == Len(kids)
        IN  /\ written[1] = Tree(elems, ROOT)
            /\ p \in Live
            /\ Len(wrappers) = TOTAL_STARS
            /\ n >= TOTAL_STARS
            /\ SubSeq(kids, n - TOTAL_STARS + 1, n) = wrappers
            /\ \A j \in 1..(n - TOTAL_STARS) : kids[j] <= Len(input)
            /\ \A k \in 1..TOTAL_STARS :
                   /\ elems[wrappers[k]].tag = "g"
                   /\ Len(elems[wrappers[k]].kids) = 1
                   /\ Shape(elems, StarOf(wrappers[k])) = Shape(input, InputTemplate)
            /\ Cardinality({ e \in Live : e > Len(input) /\ e \in Range(wrappers) })
                   = TOTAL_STARS

\* ------------------------------------------------------------------------
\* C3.  A fatal error (template absent or without parent: exit status 1; a
\* refused transform on the path to the template's parent, or a
\* non-invertible cumulative transform: ValueError) ends the run with the
\* document as parsed, nothing removed or inserted, and nothing written.
\* ------------------------------------------------------------------------
C3_FatalBeforeMutation ==
    LET t == InputTemplate
        path == InputPath(InputParent(t))
        noTemplate == t = 0 \/ InputParent(t) = 0
        badTransform == PathRefused(path) \/ Det(PathMatrix(path, 1)) = 0
    IN  /\ status \in { "exit1", "raised" } =>
               /\ Tree(elems, ROOT) = Tree(input, ROOT)
               /\ deleted = 0
               /\ wrappers = << >>
               /\ written = << >>
        /\ pc = "done" =>
               /\ status = "exit1" <=> noTemplate
               /\ status = "raised" <=> (~noTemplate /\ badTransform)
        /\ written # << >> => status = "ok"

C3_Witness ==
    /\ status = "raised"
    /\ pc = "done"
    /\ \E e \in 1..Len(input) : input[e].id = TEMPLATE_ID /\ InputParent(e) # 0

\* ------------------------------------------------------------------------
\* C4 as claimed.  Running the deletion loop again on the tree the first
\* run left removes nothing and leaves the tree unchanged, for any input.
\* ------------------------------------------------------------------------
C4_SecondRunRemovesNothing ==
    (DeletionDone /\ i = 0) =>
        LET again == DeleteLoop(elems, 1, 0)
        IN  again.deleted = 0 /\ again.heap = elems

\* no id of all_to_delete is borne by two elements of the input document
NoDuplicateTargets ==
    \A k \in 1..Len(all_to_delete) :
        Cardinality({ e \in 1..Len(input) : input[e].id = all_to_delete[k] }) <= 1

\* ------------------------------------------------------------------------
\* C4 as amended.  When no id of the deletion list is borne by more than one
\* element of the input, running the deletion loop again on the tree the
\* first run left removes nothing and leaves the tree unchanged; an id that
\* is absent from the tree is skipped.
\* ------------------------------------------------------------------------
C4_SecondRunRemovesNothingWhenUnique ==
    (DeletionDone /\ i = 0 /\ NoDuplicateTargets) =>
        LET again == DeleteLoop(elems, 1, 0)
        IN  /\ again.deleted = 0
            /\ again.heap = elems
            /\ \A k \in 1..Len(all_to_delete) :
                   LET e == find_element_by_id(elems, ROOT, all_to_delete[k])
                   IN  e = 0 \/ e = ROOT

C4_Witness ==
    /\ DeletionDone
    /\ i = 0
    /\ NoDuplicateTargets
    /\ deleted = 1
    /\ Cardinality({ e \in 1..Len(input) :
                       input[e].id \in Range(all_to_delete) /\ e # ROOT }) = 2

\* ------------------------------------------------------------------------
\* C5.  The rotation centre is the global centre mapped through the inverse
\* of the product of the transforms from the document root down to the
\* template's parent (the template's own transform left out): the product
\* maps the centre back onto (750, 515); every wrapper carries that centre;
\* under translate(100,100) it is (650, 415).
\* ------------------------------------------------------------------------
C5_CenterInParentSpace ==
    local_c # NoCenter =>
        LET m == PathMatrix(InputPath(InputParent(InputTemplate)), 1)
        IN  /\ m[1][1] * local_c.x + m[1][2] * local_c.y + m[1][3] * local_c.den
                   = GLOBAL_CENTER_X * local_c.den
            /\ m[2][1] * local_c.x + m[2][2] * local_c.y + m[2][3] * local_c.den
                   = GLOBAL_CENTER_Y * local_c.den
            /\ \A k \in 1..Len(wrappers) :
                   /\ CenterXOf(wrappers[k]) = FormatG12(local_c.x, local_c.den)
                   /\ CenterYOf(wrappers[k]) = FormatG12(local_c.y, local_c.den)
            /\ m = mat_translate(100, 100) =>
                   /\ local_c.x = 650 * local_c.den
                   /\ local_c.y = 415 * local_c.den
                   /\ \A k \in 1..Len(wrappers) :
                          /\ CenterXOf(wrappers[k]) = Dec(650)
                          /\ CenterYOf(wrappers[k]) = Dec(415)

C5_Witness ==
    /\ status = "ok"
    /\ Len(wrappers) = TOTAL_STARS
    /\ Len(InputPath(InputParent(InputTemplate))) = 2
    /\ \A e \in 1..Len(input) : parse_transform(input[e].transform).m # mat_identity
    /\ input[ROOT].transform # input[InputParent(InputTemplate)].transform

\* ------------------------------------------------------------------------
\* C6.  parse_transform never returns a matrix for a transform string that
\* contains a command (a name, optional white space, a parenthesised
\* argument list) whose lower-cased name is not matrix, translate, rotate or
\* scale: it raises.
\* ------------------------------------------------------------------------
SupportedCommands == { "matrix", "translate", "rotate", "scale" }

\* toks holds, at index p, a command: name, white space, "(", ..., ")"
IsCommandAt(toks, p) ==
    /\ toks[p].k = "name"
    /\ \E q \in (p + 1)..Len(toks) :
           /\ toks[q].k = "lp"
           /\ \A x \in (p + 1)..(q - 1) : toks[x].k = "ws"
           /\ \E r \in (q + 1)..Len(toks) : toks[r].k = "rp"

HasUnsupportedCommand(toks) ==
    \E p \in 1..Len(toks) :
        IsCommandAt(toks, p) /\ Lower(toks[p].name) \notin SupportedCommands

C6_UnsupportedRaises ==
    /\ p_pc = "returned" => ~HasUnsupportedCommand(p_in.toks)
    /\ (p_pc = "loop" /\ HasUnsupportedCommand(p_in.toks)) => p_k <= Len(findall(p_in.toks))

C6_Witness ==
    /\ p_pc = "raised"
    /\ p_k = 3
    /\ findall(p_in.toks)[3].cmd = "SkewY"

\* ------------------------------------------------------------------------
\* C7.  For an absent, empty or white-space-only attribute parse_transform
\* returns the identity; for a string of valid matrix/translate/rotate/scale
\* commands c1 ... cn it returns M(c1).M(c2)...M(cn), so that applying the
\* result to a point applies cn first and c1 last.
\* ------------------------------------------------------------------------
CmdMatrix(mt) == CommandMatrix(mt.cmd, mt.args).m

\* M(c_j) . (M(c_j+1) . ( ... . M(c_n)))
RECURSIVE ProductFrom(_, _)
ProductFrom(ms, j) ==
    IF j > Len(ms) THEN mat_identity
    ELSE mat_mul(CmdMatrix(ms[j]), ProductFrom(ms, j + 1))

\* c_j applied to (c_j+1 applied to ( ... c_n applied to pt))
RECURSIVE ApplyFrom(_, _, _)
ApplyFrom(ms, j, pt) ==
    IF j > Len(ms) THEN pt
    ELSE LET q == ApplyFrom(ms, j + 1, pt)
         IN  mat_apply(CmdMatrix(ms[j]), q[1], q[2])

TestPoints == { << 0, 0 >>, << 1, 0 >>, << 0, 1 >>, << 750, 515 >> }

\* a command parse_transform accepts
ValidCommand(mt) ==
    LET parts == SplitParts(mt.args, 1, << >>)
        n == Len(parts)
        c == Lower(mt.cmd)
    IN  /\ \A j \in 1..n : FloatOk(parts[j])
        /\ \/ c = "matrix" /\ n = 6
           \/ c = "translate" /\ n \in { 1, 2 }
           \/ c = "rotate" /\ n \in { 1, 3 }
           \/ c = "scale" /\ n \in { 1, 2 }

C7_ComposesInTextOrder ==
    LET ms == findall(p_in.toks)
        blank == ~p_in.has \/ p_in.toks = << >> \/ IsBlank(p_in.toks)
    IN  /\ (p_pc = "returned" /\ blank) => p_result = mat_identity
        /\ p_pc = "returned" =>
               /\ p_result = ProductFrom(ms, 1)
               /\ \A pt \in TestPoints :
                      mat_apply(p_result, pt[1], pt[2]) = ApplyFrom(ms, 1, pt)
        /\ p_pc = "loop" => p_result = ProductFrom(SubSeq(ms, 1, p_k - 1), 1)
        /\ p_pc = "raised" => ~ValidCommand(ms[p_k])
        /\ (p_pc = "returned" /\ ~blank) => \A j \in 1..Len(ms) : ValidCommand(ms[j])

C7_Witness ==
    LET ms == findall(p_in.toks)
    IN  /\ p_pc = "returned"
        /\ Len(ms) = 3
        /\ mat_mul(CmdMatrix(ms[1]), CmdMatrix(ms[2]))
               # mat_mul(CmdMatrix(ms[2]), CmdMatrix(ms[1]))
        /\ mat_mul(CmdMatrix(ms[2]), CmdMatrix(ms[3]))
               # mat_mul(CmdMatrix(ms[3]), CmdMatrix(ms[2]))

\* ------------------------------------------------------------------------
\* C8 as claimed.  The angle the wrapper of index i carries is exactly
\* i * (360/27) * DIRECTION, and the angles are pairwise distinct modulo 360.
\* ------------------------------------------------------------------------
Mod360(d) == [d EXCEPT !.int = @ % 360]

AnglesDistinct ==
    \A a, b \in 1..Len(wrappers) :
        a # b => Mod360(AngleOf(wrappers[a])) # Mod360(AngleOf(wrappers[b]))

C8_AnglesExact ==
    /\ \A k \in 1..Len(wrappers) :
           DecEquals(AngleOf(wrappers[k]), (k - 1) * STEP_NUM * DIRECTION, TOTAL_STARS)
    /\ AnglesDistinct

\* ------------------------------------------------------------------------
\* C8 as amended.  The angle the wrapper of index i carries is
\* i * (360/27) * DIRECTION rounded to 12 significant digits: exact when it
\* has at most 12 significant digits, and otherwise equal to it in the
\* integer part and the first eight decimals; the angles are pairwise
\* distinct modulo 360.
\* ------------------------------------------------------------------------
C8_AnglesRounded ==
    /\ \A k \in 1..Len(wrappers) :
           LET num == (k - 1) * STEP_NUM * DIRECTION
               n == Abs(num)
               a == AngleOf(wrappers[k])
           IN  /\ a = FormatG12(num, TOTAL_STARS)
               /\ a.int = n \div TOTAL_STARS
               /\ \/ DecEquals(a, num, TOTAL_STARS)
                  \/ /\ FracRem(n % TOTAL_STARS, TOTAL_STARS, SIG_DIGITS) # 0
                     /\ Len(a.frac) >= 9
                     /\ SubSeq(a.frac, 1, 8) = FracDigits(n % TOTAL_STARS, TOTAL_STARS, 8)
    /\ AnglesDistinct

C8_Witness ==
    /\ status = "ok"
    /\ Len(wrappers) = TOTAL_STARS
    /\ AngleOf(wrappers[3]) = [neg |-> FALSE, int |-> 26,
                               frac |-> << 6, 6, 6, 6, 6, 6, 6, 6, 6, 7 >>]

\* ------------------------------------------------------------------------
\* C9.  Every identifier the stamping loop mints is absent from the tracked
\* id set when it is assigned and is added to the set before the next one is
\* minted; the minted identifiers are pairwise distinct and differ from
\* every id of the live tree left by the deletion phase.
\* ------------------------------------------------------------------------
MintedAreFresh ==
    /\ Cardinality(MintedIds) = 2 * Len(wrappers)
    /\ pc \in { "stamp", "write" } \/ status = "ok" => MintedIds \subseteq existing_ids
    /\ \A e \in Live \ (Range(wrappers) \cup { StarOf(wrappers[k]) : k \in 1..Len(wrappers) }
                          \cup InsideCopies) :
           elems[e].id \notin MintedIds

StampMintsFresh ==
    (pc = "stamp" /\ i' = i + 1) =>
        LET w == wrappers'[Len(wrappers')]
            star_id == elems'[elems'[w].kids[1]].id
            wrapper_id == elems'[w].id
        IN  /\ star_id \notin existing_ids
            /\ wrapper_id \notin existing_ids \cup { star_id }
            /\ existing_ids' = existing_ids \cup { star_id, wrapper_id }

C9_MintedIdsFresh == [](MintedAreFresh) /\ [][StampMintsFresh]_vars

C9_Witness ==
    /\ status = "ok"
    /\ elems[StarOf(wrappers[1])].id = "g16532_new00_2"
    /\ elems[wrappers[1]].id = "g16532_new00_2_wrap"
    /\ \E e \in Live : elems[e].id = "g16532_new00_wrap"

\* ------------------------------------------------------------------------
\* C10 as claimed.  After a successful run on an input with pairwise
\* distinct ids, no element of the written document bears TEMPLATE_ID or an
\* id of STAR_IDS_TO_DELETE.
\* ------------------------------------------------------------------------
TargetIds == Range(STAR_IDS_TO_DELETE) \cup { TEMPLATE_ID }

C10_NoTargetIdInOutput ==
    (status = "ok" /\ DistinctInputIds) =>
        \A j \in 1..Len(IdsOfTree(written[1])) : IdsOfTree(written[1])[j] \notin TargetIds

\* ------------------------------------------------------------------------
\* C10 as amended.  After a successful run on an input with pairwise
\* distinct ids, no element of the written document bears TEMPLATE_ID, and
\* an element that bears an id of STAR_IDS_TO_DELETE is the document root or
\* lies inside a stamped copy.
\* ------------------------------------------------------------------------
C10_TargetIdsOnlyOnRootOrInCopies ==
    (status = "ok" /\ DistinctInputIds) =>
        /\ written[1] = Tree(elems, ROOT)
        /\ \A e \in Live :
               /\ elems[e].id # TEMPLATE_ID
               /\ elems[e].id \in Range(STAR_IDS_TO_DELETE) =>
                      e = ROOT \/ e \in InsideCopies

C10_Witness ==
    /\ status = "ok"
    /\ DistinctInputIds
    /\ deleted = 2
    /\ Len(elems[ROOT].kids) = TOTAL_STARS
    /\ \A e \in Live : elems[e].id \notin TargetIds

====
